---- MODULE Spec2Model ----
(***************************************************************************)
(* Model of the SGP4X (SGP40 / SGP41) gas sensor driver, src/sgp4Xmod.py.  *)
(* The session object's fields are the variables; every public operation   *)
(* of class SGP4X is one action that models the whole call, the bus        *)
(* traffic it produces being logged, in order, in the variable bus.        *)
(* Bytes are integers 0..255; a buffer is a sequence, so Python's buf[i]   *)
(* is buf[i + 1] here.  Spec drives a session call by call, MainSpec is    *)
(* the example script src/main.py, RoundTripSpec calls _send_command and   *)
(* _check_answer on their own.                                             *)
(***************************************************************************)
EXTENDS Integers, Sequences, FiniteSets, TLC

VARIABLES
    alive,          \* TRUE once __init__ has returned normally
    sensor_id,      \* self._sensor_id
    check_crc,      \* self._check_crc
    last_cmd_code,  \* self._last_cmd_code
    buf_3,          \* self._buf_3
    buf_6,          \* self._buf_6
    buf_9,          \* self._buf_9
    cmd_buf,        \* self._cmd_buf
    calls,          \* number of calls made on the session
    op,             \* name of the most recent call
    args,           \* its arguments
    bus,            \* transport events of the most recent call, in order
    error,          \* how the most recent call ended: "ok" or the exception raised
    detail,         \* the values the exception's message reports
    result,         \* the value the most recent call returned (<<>> when it raised)
    pc,             \* the place src/main.py has reached ("idle" while it does not run)
    log             \* the sensor calls src/main.py has made, in order

vars == <<alive, sensor_id, check_crc, last_cmd_code, buf_3, buf_6, buf_9, cmd_buf,
          calls, op, args, bus, error, detail, result, pc, log>>

(***************************************************************************)
(* Bounds of the model.                                                    *)
(***************************************************************************)
\* calls made on one session
MaxCalls == 3
\* a response may arrive with the CRC bytes of its last 0 .. MaxBad groups corrupted
MaxBad == 1
\* command codes resolve is called with: the five opcodes and their neighbours
\* at distance at most MaxDelta
MaxDelta == 2
\* passes of the measurement loop of src/main.py, for its range(1000)
MaxMeasure == 2

(***************************************************************************)
(* Program constants.                                                      *)
(***************************************************************************)
\* Python's None, where an integer may stand as well
None == -1000

\* 0x2612
_cmd_execute_conditioning == 9746
\* 0x260F
_cmd_measure_raw_signal == 9743
\* 0x280E
_cmd_execute_self_test == 10254
\* 0x3615
_cmd_turn_heater_off == 13845
\* 0x3682
_cmd_get_serial_number == 13954

Opcodes == {_cmd_execute_conditioning, _cmd_measure_raw_signal, _cmd_execute_self_test,
            _cmd_turn_heater_off, _cmd_get_serial_number}

\* Python truthiness of an int-or-None value: None and 0 are falsy
Truthy(x) == x # None /\ x # 0

(***************************************************************************)
(* Bit and byte arithmetic.                                                *)
(***************************************************************************)
RECURSIVE XorBits(_, _)
\* a ^ b on non-negative integers, bit by bit
XorBits(a, b) ==
    IF a = 0 THEN b
    ELSE IF b = 0 THEN a
    ELSE (((a % 2) + (b % 2)) % 2) + (2 * XorBits(a \div 2, b \div 2))

\* a ^ b for every pair of 4-bit values
xor_table == [a \in 0 .. 15 |-> [b \in 0 .. 15 |-> XorBits(a, b)]]

\* a ^ b on bytes
Xor(a, b) == 16 * xor_table[a \div 16][b \div 16] + xor_table[a % 16][b % 16]

\* int.to_bytes(2, "big")
to_bytes(v) == <<(v \div 256) % 256, v % 256>>

\* H of struct.unpack(">H", ...)
from_bytes(hi, lo) == 256 * hi + lo

\* buf[a:b] of Python, on a 1-based sequence
Slice(buf, a, b) == SubSeq(buf, a + 1, b)

(***************************************************************************)
(* crc8 of sensor_pack_2.crc_mod, as _calc_crc calls it:                   *)
(* polynomial 0x31, initial value 0xFF, no reflection, no final xor.       *)
(***************************************************************************)
RECURSIVE crc_shift(_, _)
crc_shift(crc, n) ==
    IF n = 0 THEN crc
    ELSE crc_shift(IF (crc \div 128) % 2 = 1
                   THEN Xor((crc * 2) % 256, 49)
                   ELSE (crc * 2) % 256,
                   n - 1)

\* the eight shifts of the inner loop, for every value of crc ^ item
crc_table == [x \in 0 .. 255 |-> crc_shift(x, 8)]

RECURSIVE crc8(_, _)
crc8(sequence, crc) ==
    IF sequence = <<>> THEN crc
    ELSE crc8(Tail(sequence), crc_table[Xor(crc, Head(sequence) % 256)])

_calc_crc(sequence) == crc8(sequence, 255)

(***************************************************************************)
(* check_value of sensor_pack_2.base_sensor: a value of None is accepted,  *)
(* any other value must lie in valid_range.  TRUE when it raises.          *)
(***************************************************************************)
check_value(value, valid_range) == value # None /\ value \notin valid_range

\* the end of _get_answer_params: the locals _l and _wt either both set or the raise
answer_params(s) ==
    IF s.wt = None \/ s.l = None
    THEN [length |-> None, wait_time |-> None, error |-> "InvalidCommand"]
    ELSE [length |-> s.l, wait_time |-> s.wt, error |-> "ok"]

\* _get_answer_params with the else of the variant test attached to the test of the
\* command code: every command but measure-raw-signal on Variant0 gets (6, 50)
get_answer_params_dangling_else(cmd_code, sid) ==
    LET s0 == [l |-> None, wt |-> None]
        s1 == IF _cmd_turn_heater_off = cmd_code THEN [l |-> 0, wt |-> 1] ELSE s0
        s2 == IF _cmd_execute_self_test = cmd_code THEN [l |-> 3, wt |-> 320] ELSE s1
        s3 == IF 1 = sid /\ _cmd_execute_conditioning = cmd_code
              THEN [l |-> 3, wt |-> 50] ELSE s2
        s4 == IF _cmd_measure_raw_signal = cmd_code /\ 0 = sid
              THEN [l |-> 3, wt |-> 30] ELSE [l |-> 6, wt |-> 50]
        s5 == IF _cmd_get_serial_number = cmd_code THEN [l |-> 9, wt |-> 1] ELSE s4
    IN  answer_params(s5)

\* _get_answer_params without the variant test of the conditioning command
get_answer_params_any_variant(cmd_code, sid) ==
    LET s0 == [l |-> None, wt |-> None]
        s1 == IF _cmd_turn_heater_off = cmd_code THEN [l |-> 0, wt |-> 1] ELSE s0
        s2 == IF _cmd_execute_self_test = cmd_code THEN [l |-> 3, wt |-> 320] ELSE s1
        s3 == IF _cmd_execute_conditioning = cmd_code THEN [l |-> 3, wt |-> 50] ELSE s2
        s4 == IF _cmd_measure_raw_signal = cmd_code
              THEN (IF 0 = sid THEN [l |-> 3, wt |-> 30] ELSE [l |-> 6, wt |-> 50])
              ELSE s3
        s5 == IF _cmd_get_serial_number = cmd_code THEN [l |-> 9, wt |-> 1] ELSE s4
    IN  answer_params(s5)

(***************************************************************************)
(* Response metadata: the sequential ifs of _get_answer_params, each one   *)
(* assigning to the shared locals _l and _wt.                              *)
(***************************************************************************)
_get_answer_params(cmd_code, sid) ==
    LET s0 == [l |-> None, wt |-> None]
        s1 == IF _cmd_turn_heater_off = cmd_code THEN [l |-> 0, wt |-> 1] ELSE s0
        s2 == IF _cmd_execute_self_test = cmd_code THEN [l |-> 3, wt |-> 320] ELSE s1
        s3 == IF 1 = sid /\ _cmd_execute_conditioning = cmd_code
              THEN [l |-> 3, wt |-> 50] ELSE s2
        s4 == IF _cmd_measure_raw_signal = cmd_code
              THEN (IF 0 = sid THEN [l |-> 3, wt |-> 30] ELSE [l |-> 6, wt |-> 50])
              ELSE s3
        s5 == IF _cmd_get_serial_number = cmd_code THEN [l |-> 9, wt |-> 1] ELSE s4
    IN  answer_params(s5)

(***************************************************************************)
(* Value transforms.                                                       *)
(***************************************************************************)
\* the check_value call that ends _check_rh_temp, on the value and range chosen
check_chosen(chosen) == check_value(chosen.val, chosen.rng)

\* _check_rh_temp: TRUE when it raises.  Only a truthy argument is looked at, and
\* temp, when truthy, replaces rh as the value that is checked.
_check_rh_temp(rh, temp) ==
    check_chosen(IF Truthy(temp) THEN [val |-> temp, rng |-> -45 .. 130]
                 ELSE IF Truthy(rh) THEN [val |-> rh, rng |-> 0 .. 100]
                 ELSE [val |-> None, rng |-> {}])

\* round(65.35 * rel_hum) for 0 <= rel_hum <= 100: 65.35 * rel_hum = 1307 * rel_hum / 20;
\* the binary64 product lies just below the tie n + 1/2 for rel_hum = 30, 50, 90
\* and is the tie itself, rounded to even, for 10 (654) and 70 (4574)
round_relhum(rel_hum) ==
    IF rel_hum \in {30, 50, 70, 90}
    THEN (1307 * rel_hum) \div 20
    ELSE (1307 * rel_hum + 10) \div 20

\* the rounding with 26240 / 70 for a factor
round_temp_other_factor(x) == (26240 * x + 35) \div 70

\* round(374.4857142857 * x) for 0 <= x <= 175: the factor is 26214 / 70 less 1.4e-11,
\* and no product is nearer than 1/70 to a tie
round_temp(x) == (26214 * x + 35) \div 70

\* _get_raw_relhum without its range check
get_raw_relhum_unchecked(rel_hum) == [error |-> "ok", value |-> round_relhum(rel_hum)]

\* _get_raw_relhum: [error, value]
_get_raw_relhum(rel_hum) ==
    IF _check_rh_temp(rel_hum, None)
    THEN [error |-> "InvalidArgument", value |-> None]
    ELSE [error |-> "ok", value |-> round_relhum(rel_hum)]

\* _get_raw_temp: [error, value]
_get_raw_temp(temperature) ==
    IF _check_rh_temp(None, temperature)
    THEN [error |-> "InvalidArgument", value |-> None]
    ELSE [error |-> "ok", value |-> round_temp(45 + temperature)]

(***************************************************************************)
(* Response validation.                                                    *)
(***************************************************************************)
\* _check_answer_length: TRUE when it raises
_check_answer_length(answ_length) == check_value(answ_length, {0, 3, 6, 9})

\* _get_data_place(answ_length, data=True): the index ranges the generator yields
_get_data_place(answ_length) ==
    [index \in 1 .. (answ_length \div 3) |->
        [start |-> 3 * (index - 1), stop |-> 2 + 3 * (index - 1)]]

\* the comparison in the loop of _check_answer: <<calculated_crc, crc_from_buf>> when
\* it raises, else what the passes that follow yield
compare_crc(calculated_crc, crc_from_buf, following) ==
    IF calculated_crc # crc_from_buf THEN <<calculated_crc, crc_from_buf>> ELSE following

\* the loop of _check_answer leaving after its first pass
check_first_group_only(answer, places, index) ==
    IF index > Len(places) THEN <<>>
    ELSE compare_crc(_calc_crc(Slice(answer, places[index].start, places[index].stop)),
                     answer[places[index].stop + 1],
                     <<>>)

RECURSIVE check_groups(_, _, _)
\* the for loop of _check_answer from the index-th data place on: <<>> when every
\* group validates, else <<calculated_crc, crc_from_buf>> of the group it raises at
check_groups(answer, places, index) ==
    IF index > Len(places) THEN <<>>
    ELSE compare_crc(_calc_crc(Slice(answer, places[index].start, places[index].stop)),
                     answer[places[index].stop + 1],
                     check_groups(answer, places, index + 1))

\* the outcome of the loop of _check_answer
check_outcome(mismatch) ==
    IF mismatch # <<>>
    THEN [error |-> "ChecksumMismatch", detail |-> mismatch]
    ELSE [error |-> "ok", detail |-> <<>>]

\* _check_answer: [error, detail], error "ok" when it returns True
_check_answer(answer, answ_length) ==
    IF _check_answer_length(answ_length)
    THEN [error |-> "InvalidLength", detail |-> <<answ_length>>]
    ELSE check_outcome(check_groups(answer, _get_data_place(answ_length), 1))

(***************************************************************************)
(* The transport and the sensor behind it.  Every call draws an io record: *)
(* wok / rok tell whether write / read_to_buf succeed (they raise the      *)
(* transport's bus error otherwise) and bad the groups of the response     *)
(* whose CRC byte arrives corrupted.                                       *)
(***************************************************************************)
\* the data word of the g-th group of a response: 0xD400, 0x4B03, 0xC206
SampleWord(g) == (54272 + (g - 1) * 30467) % 65536

\* the group [DATA_HI, DATA_LO, CRC] the sensor sends as the g-th of a response
SampleGroup ==
    [g \in 1 .. 3 |-> to_bytes(SampleWord(g)) \o <<_calc_crc(to_bytes(SampleWord(g)))>>]

\* a CRC byte damaged on the wire
Corrupt(crc) == (crc + 1) % 256

\* the write fails; the write succeeds and the read fails; both succeed, and the
\* last io.bad groups of the response arrive corrupted
IO ==
    {[wok |-> FALSE, rok |-> TRUE, bad |-> 0],
     [wok |-> TRUE, rok |-> FALSE, bad |-> 0]}
    \cup [wok : {TRUE}, rok : {TRUE}, bad : 0 .. MaxBad]

\* for a call that only writes
WriteIO == {io \in IO : io.rok /\ io.bad = 0}

\* a group as it arrives
Arrive(grp, bad) == <<grp[1], grp[2], IF bad > 0 THEN Corrupt(grp[3]) ELSE grp[3]>>

RECURSIVE Response(_, _)
\* the n bytes the sensor delivers, n / 3 groups, the last bad of them corrupted
Response(bad, n) ==
    IF n = 0 THEN <<>>
    ELSE Response(IF bad > 0 THEN bad - 1 ELSE 0, n - 3) \o Arrive(SampleGroup[n \div 3], bad)

\* one transport event
Event(ev, buf, n, ok) == [ev |-> ev, buf |-> buf, n |-> n, ok |-> ok]

(***************************************************************************)
(* The call context c carries the session fields a call may change and     *)
(* what the call has produced so far: the bus events, the error raised     *)
(* ("ok" while none is) and ret, the value of the last private call.  A    *)
(* statement that follows a raise is not executed: it leaves c as it is.   *)
(***************************************************************************)
Enter ==
    [last_cmd_code |-> last_cmd_code, buf_3 |-> buf_3, buf_6 |-> buf_6, buf_9 |-> buf_9,
     cmd_buf |-> cmd_buf, bus |-> <<>>, error |-> "ok", detail |-> <<>>, ret |-> <<>>]

\* an exception leaves the call: nothing is returned
Raise(c, e) == [c EXCEPT !.error = e, !.ret = <<>>]

\* the CRC assignments of _send_command taking their bytes one place too early
fill_crc_misplaced(_cmd_buf) ==
    [_cmd_buf EXCEPT ![5] = _calc_crc(Slice(_cmd_buf, 1, 3)),
                     ![8] = _calc_crc(Slice(_cmd_buf, 4, 6))]

\* the two CRC assignments of _send_command
fill_crc(_cmd_buf) ==
    [_cmd_buf EXCEPT ![5] = _calc_crc(Slice(_cmd_buf, 2, 4)),
                     ![8] = _calc_crc(Slice(_cmd_buf, 5, 7))]

\* the command buffer as _send_command fills it for a command with parameters
fill_cmd_buf(_cmd_buf, cmd_code, raw_rel_hum, raw_temp) ==
    fill_crc([i \in 1 .. 8 |->
                IF i \in 1 .. 2 THEN to_bytes(cmd_code)[i]
                ELSE IF i \in 3 .. 4 THEN to_bytes(raw_rel_hum)[i - 2]
                ELSE IF i \in 6 .. 7 THEN to_bytes(raw_temp)[i - 5]
                ELSE _cmd_buf[i]])

\* the end of _send_command with the command recorded before the write
write_after_record(c, _cmd_buf, cmd_code, io) ==
    IF io.wok
    THEN [c EXCEPT !.bus = Append(@, Event("write", _cmd_buf, Len(_cmd_buf), TRUE)),
                   !.last_cmd_code = cmd_code]
    ELSE Raise([c EXCEPT !.bus = Append(@, Event("write", _cmd_buf, Len(_cmd_buf), FALSE)),
                         !.last_cmd_code = cmd_code],
               "BusError")

\* the end of _send_command: the write, and after it the record of the command
write(c, _cmd_buf, cmd_code, io) ==
    IF io.wok
    THEN [c EXCEPT !.bus = Append(@, Event("write", _cmd_buf, Len(_cmd_buf), TRUE)),
                   !.last_cmd_code = cmd_code]
    ELSE Raise([c EXCEPT !.bus = Append(@, Event("write", _cmd_buf, Len(_cmd_buf), FALSE))],
               "BusError")

\* the write of the session's command buffer
write_cmd_buf(c, cmd_code, io) == write(c, c.cmd_buf, cmd_code, io)

\* _send_command
_send_command(c, cmd_code, raw_rel_hum, raw_temp, io) ==
    IF Truthy(raw_rel_hum) /\ Truthy(raw_temp)
    THEN write_cmd_buf([c EXCEPT !.cmd_buf = fill_cmd_buf(@, cmd_code, raw_rel_hum, raw_temp)],
                       cmd_code, io)
    ELSE write(c, to_bytes(cmd_code), cmd_code, io)

\* _get_buf_by_answ_length then read_to_buf: the buffer of that length is filled
read_to_buf(c, answ_length, data) ==
    IF answ_length = 3 THEN [c EXCEPT !.buf_3 = data]
    ELSE IF answ_length = 6 THEN [c EXCEPT !.buf_6 = data]
    ELSE [c EXCEPT !.buf_9 = data]

\* a read that leaves the session's buffer as the call before left it
receive_stale(c, answ_length, data) ==
    [c EXCEPT !.bus = Append(@, Event("read", data, answ_length, TRUE)),
              !.ret = IF answ_length = 3 THEN c.buf_3
                      ELSE IF answ_length = 6 THEN c.buf_6
                      ELSE c.buf_9]

\* a read that succeeds: _buf holds what the sensor delivered
receive(c, answ_length, data) ==
    [read_to_buf(c, answ_length, data) EXCEPT
        !.bus = Append(@, Event("read", data, answ_length, TRUE)), !.ret = data]

\* the raise of _check_answer leaving _read_answer
raise_checked(c, crc) ==
    IF crc.error # "ok" THEN [Raise(c, crc.error) EXCEPT !.detail = crc.detail] ELSE c

\* the end of _read_answer validating the response whatever check_crc is
checked_always(c, _al) == raise_checked(c, _check_answer(c.ret, _al))

\* the end of _read_answer: the response is validated when check_crc is set
checked(c, _al) == IF check_crc THEN raise_checked(c, _check_answer(c.ret, _al)) ELSE c

\* _read_answer from the test of the length on
read_length(c, _al, io) ==
    IF 0 = _al THEN [c EXCEPT !.ret = <<>>]
    ELSE IF _check_answer_length(_al) THEN Raise(c, "InvalidLength")
    ELSE IF ~io.rok
         THEN Raise([c EXCEPT !.bus = Append(@, Event("read", <<>>, _al, FALSE))], "BusError")
    ELSE checked(receive(c, _al, Response(io.bad, _al)), _al)

\* _read_answer once the answer parameters of the last command are resolved
read_resolved(c, _ap, io) ==
    IF _ap.error # "ok" THEN Raise(c, _ap.error) ELSE read_length(c, _ap.length, io)

\* _read_answer reading the response a second time when its checksum is wrong
read_answer_retry(c, io) ==
    LET _ap == _get_answer_params(c.last_cmd_code, sensor_id)
        _al == _ap.length
        first == read_resolved(c, _ap, io)
    IN  IF first.error = "ChecksumMismatch"
        THEN receive([c EXCEPT !.bus = Append(@, Event("read", Response(io.bad, _al), _al, TRUE))],
                     _al, Response(0, _al))
        ELSE first

\* _read_answer
_read_answer(c, io) ==
    read_resolved(c, _get_answer_params(c.last_cmd_code, sensor_id), io)

RECURSIVE unpack(_, _)
\* DeviceEx.unpack: struct.unpack(">" + fmt, source); H is a big-endian 16-bit word,
\* B a byte; bytes of source beyond the format are left alone
unpack(fmt, source) ==
    IF fmt = <<>> THEN <<>>
    ELSE IF Head(fmt) = "H"
         THEN <<from_bytes(source[1], source[2])>> \o unpack(Tail(fmt), Tail(Tail(source)))
         ELSE <<source[1]>> \o unpack(Tail(fmt), Tail(source))

\* the call of _send_command with the raw values, unless one of them raised
send_raw(c, cmd_code, raw_rh, raw_temp, io) ==
    IF raw_temp.error # "ok" THEN Raise(c, raw_temp.error)
    ELSE IF raw_rh.error # "ok" THEN Raise(c, raw_rh.error)
    ELSE _send_command(c, cmd_code, raw_rh.value, raw_temp.value, io)

\* the with_params branch of _send_command_and_read_answer
send_with_params(c, cmd_code, rel_hum, temperature, io) ==
    IF _check_rh_temp(rel_hum, temperature) THEN Raise(c, "InvalidArgument")
    ELSE send_raw(c, cmd_code, _get_raw_relhum(rel_hum), _get_raw_temp(temperature), io)

\* the if statement of _send_command_and_read_answer
send(c, cmd_code, with_params, rel_hum, temperature, io) ==
    IF with_params THEN send_with_params(c, cmd_code, rel_hum, temperature, io)
    ELSE _send_command(c, cmd_code, None, None, io)

\* _get_answer_params and time.sleep_ms(_ap.wait_time)
sleep_ms(c, _ap) ==
    IF c.error # "ok" THEN c
    ELSE IF _ap.error # "ok" THEN Raise(c, _ap.error)
    ELSE [c EXCEPT !.bus = Append(@, Event("wait", <<>>, _ap.wait_time, TRUE))]

\* _buf = self._read_answer()
read_buf(c, io) == IF c.error # "ok" THEN c ELSE _read_answer(c, io)

\* return self._connector.unpack(unpack_format, _buf); _buf is None after a
\* command without a response
unpack_buf(c, unpack_format) ==
    IF c.error # "ok" THEN c
    ELSE IF c.ret = <<>> THEN Raise(c, "TypeError")
    ELSE [c EXCEPT !.ret = unpack(unpack_format, @)]

\* _send_command_and_read_answer reading the answer before the wait
read_before_wait(c, cmd_code, unpack_format, with_params, rel_hum, temperature, io) ==
    unpack_buf(
        sleep_ms(
            read_buf(send(c, cmd_code, with_params, rel_hum, temperature, io), io),
            _get_answer_params(cmd_code, sensor_id)),
        unpack_format)

\* _send_command_and_read_answer: ret is the unpacked tuple
_send_command_and_read_answer(c, cmd_code, unpack_format, with_params, rel_hum, temperature, io) ==
    unpack_buf(
        read_buf(
            sleep_ms(send(c, cmd_code, with_params, rel_hum, temperature, io),
                     _get_answer_params(cmd_code, sensor_id)),
            io),
        unpack_format)

(***************************************************************************)
(* Inputs of the calls.                                                    *)
(***************************************************************************)
\* 0x59 and the addresses next to it
Addresses == {88, 89, 90}
SensorIds == {-1, 0, 1, 2}
\* <<relative humidity in %, temperature in degrees Celsius>>: the defaults, the
\* ends of the ranges 0..100 and -45..130, a temperature of 0, and values outside
Compensations ==
    {<<50, 25>>, <<0, 25>>, <<50, -45>>, <<50, 0>>, <<100, 130>>,
     <<-1, 25>>, <<101, 0>>, <<50, -46>>, <<50, 131>>}

\* the calls with compensation values: arguments and transport behaviour; with a
\* value outside its range one transport behaviour is enough
CompCalls ==
    {x \in Compensations \X IO :
        (x[1][1] \in 0 .. 100 /\ x[1][2] \in -45 .. 130) \/ (x[2].wok /\ x[2].rok /\ x[2].bad = 0)}
\* command codes for direct calls of the static _get_answer_params
CmdCodes == {c + d : c \in Opcodes, d \in (0 - MaxDelta) .. MaxDelta}

(***************************************************************************)
(* Init: no session has been constructed yet.                              *)
(***************************************************************************)
Init ==
    /\ alive = FALSE
    /\ sensor_id = None
    /\ check_crc = FALSE
    /\ last_cmd_code = None
    /\ buf_3 = <<>>
    /\ buf_6 = <<>>
    /\ buf_9 = <<>>
    /\ cmd_buf = <<>>
    /\ calls = 0
    /\ op = "none"
    /\ args = <<>>
    /\ bus = <<>>
    /\ error = "ok"
    /\ detail = <<>>
    /\ result = <<>>
    /\ pc = "idle"
    /\ log = <<>>

\* the end of a call on the session: the fields and the call's outcome are stored
Return(c, name, a) ==
    /\ last_cmd_code' = c.last_cmd_code
    /\ buf_3' = c.buf_3
    /\ buf_6' = c.buf_6
    /\ buf_9' = c.buf_9
    /\ cmd_buf' = c.cmd_buf
    /\ calls' = calls + 1
    /\ op' = name
    /\ args' = a
    /\ bus' = c.bus
    /\ error' = c.error
    /\ detail' = c.detail
    /\ result' = c.ret
    /\ UNCHANGED <<alive, sensor_id, check_crc>>

\* the end of a call made on the session directly
Leave(c, name, a) == Return(c, name, a) /\ UNCHANGED <<pc, log>>

\* the body of SGP4X.__init__(adapter, address, sensor_id, check_crc)
SGP4X(address, sid, crc) ==
    /\ op' = "__init__"
    /\ args' = <<address, sid>>
    /\ bus' = <<>>
    /\ detail' = <<>>
    /\ result' = <<>>
    /\ IF check_value(address, {89}) \/ check_value(sid, {0, 1})
       THEN /\ error' = "InvalidArgument"
            /\ UNCHANGED <<alive, sensor_id, check_crc, last_cmd_code,
                           buf_3, buf_6, buf_9, cmd_buf, calls>>
       ELSE /\ error' = "ok"
            /\ alive' = TRUE
            /\ check_crc' = crc
            /\ sensor_id' = sid
            /\ last_cmd_code' = None
            /\ buf_3' = [i \in 1 .. 3 |-> 0]
            /\ buf_6' = [i \in 1 .. 6 |-> 0]
            /\ cmd_buf' = [i \in 1 .. 8 |-> 0]
            /\ buf_9' = [i \in 1 .. 9 |-> 0]
            /\ calls' = 0

\* a session is constructed
__init__ ==
    /\ ~alive /\ pc = "idle"
    /\ \E address \in Addresses, sid \in SensorIds, crc \in BOOLEAN :
        SGP4X(address, sid, crc) /\ UNCHANGED <<pc, log>>

\* the outcome of a direct call of _get_answer_params
answer_params_returned(cmd_code, sid, _ap) ==
    /\ op' = "_get_answer_params"
    /\ args' = <<cmd_code, sid>>
    /\ bus' = <<>>
    /\ detail' = <<>>
    /\ error' = _ap.error
    /\ result' = IF _ap.error = "ok" THEN <<_ap.length, _ap.wait_time>> ELSE <<>>
    /\ UNCHANGED <<alive, sensor_id, check_crc, last_cmd_code,
                   buf_3, buf_6, buf_9, cmd_buf, calls, pc, log>>

\* a direct call of the static method SGP4X._get_answer_params(cmd_code, sensor_id)
get_answer_params ==
    /\ ~alive
    /\ \E cmd_code \in CmdCodes, sid \in {0, 1} :
        answer_params_returned(cmd_code, sid, _get_answer_params(cmd_code, sid))

\* return serial_number_sgp4x(word_0=_t[0], word_1=_t[2], word_2=_t[4])
serial_number_sgp4x(c) ==
    IF c.error # "ok" THEN c ELSE [c EXCEPT !.ret = <<@[1], @[3], @[5]>>]

\* SGP4X.get_id()
get_id ==
    /\ alive /\ calls < MaxCalls
    /\ \E io \in IO :
        Leave(serial_number_sgp4x(
                  _send_command_and_read_answer(Enter, _cmd_get_serial_number,
                      <<"H", "B", "H", "B", "H">>, FALSE, None, None, io)),
              "get_id", <<>>)

\* turn_heater_off sending its command the way the reading operations do
turn_heater_off_and_read ==
    /\ alive /\ calls < MaxCalls
    /\ \E io \in WriteIO :
        Leave(_send_command_and_read_answer(Enter, _cmd_turn_heater_off,
                  <<"H", "B">>, FALSE, None, None, io),
              "turn_heater_off", <<>>)

\* SGP4X.turn_heater_off()
turn_heater_off ==
    /\ alive /\ calls < MaxCalls
    /\ \E io \in WriteIO :
        Leave(_send_command(Enter, _cmd_turn_heater_off, None, None, io),
              "turn_heater_off", <<>>)

\* return _t[0]
self_test_result(c) == IF c.error # "ok" THEN c ELSE [c EXCEPT !.ret = <<@[1]>>]

\* SGP4X.execute_self_test()
execute_self_test ==
    /\ alive /\ calls < MaxCalls
    /\ \E io \in IO :
        Leave(self_test_result(
                  _send_command_and_read_answer(Enter, _cmd_execute_self_test,
                      <<"H", "B">>, FALSE, None, None, io)),
              "execute_self_test", <<>>)

\* return measured_values_sgp4x(VOC=t[0], NOx=None)
conditioning_values(c) == IF c.error # "ok" THEN c ELSE [c EXCEPT !.ret = <<@[1], None>>]

\* SGP4X.execute_conditioning(rel_hum, temperature)
execute_conditioning ==
    /\ alive /\ calls < MaxCalls
    /\ \E call \in CompCalls :
        Leave(conditioning_values(
                  _send_command_and_read_answer(Enter, _cmd_execute_conditioning,
                      <<"H", "B">>, TRUE, call[1][1], call[1][2], call[2])),
              "execute_conditioning", call[1])

\* the end of measure_raw_signal taking NOx from the tuple element before the second word
measured_values_wrong_index(c, sen_id) ==
    IF c.error # "ok" THEN c
    ELSE [c EXCEPT !.ret = <<@[1], IF sen_id # 0 THEN @[2] ELSE None>>]

\* _NOx = _t[2] if sen_id else None; return measured_values_sgp4x(VOC=_t[0], NOx=_NOx)
measured_values_sgp4x(c, sen_id) ==
    IF c.error # "ok" THEN c
    ELSE [c EXCEPT !.ret = <<@[1], IF sen_id # 0 THEN @[3] ELSE None>>]

\* SGP4X.measure_raw_signal(rel_hum, temperature)
measure_raw_signal ==
    /\ alive /\ calls < MaxCalls
    /\ \E call \in CompCalls :
        Leave(measured_values_sgp4x(
                  _send_command_and_read_answer(Enter, _cmd_measure_raw_signal,
                      IF sensor_id # 0 THEN <<"H", "B", "H", "B">> ELSE <<"H", "B">>,
                      TRUE, call[1][1], call[1][2], call[2]),
                  sensor_id),
              "measure_raw_signal", call[1])

Next ==
    \/ __init__
    \/ get_answer_params
    \/ get_id
    \/ turn_heater_off
    \/ execute_self_test
    \/ execute_conditioning
    \/ measure_raw_signal

Spec == Init /\ [][Next]_vars

(***************************************************************************)
(* The example orchestration, src/main.py.  Every action is one sensor     *)
(* call of the script together with the control flow up to the next call;  *)
(* pc names the call that comes next and log records the calls made.  The  *)
(* script constructs the session with address 0x59 and check_crc=True; its *)
(* sensor_id is the variant of the sensor on the board.  The pauses        *)
(* between the calls (sleep_ms) and the prints change no state.            *)
(***************************************************************************)
MainInit ==
    /\ alive = FALSE
    /\ sensor_id = None
    /\ check_crc = FALSE
    /\ last_cmd_code = None
    /\ buf_3 = <<>>
    /\ buf_6 = <<>>
    /\ buf_9 = <<>>
    /\ cmd_buf = <<>>
    /\ calls = 0
    /\ op = "none"
    /\ args = <<>>
    /\ bus = <<>>
    /\ error = "ok"
    /\ detail = <<>>
    /\ result = <<>>
    /\ pc = "construct"
    /\ log = <<>>

\* whether a call put its command frame on the bus
Sent(c) == \E i \in DOMAIN c.bus : c.bus[i].ev = "write" /\ c.bus[i].ok

\* the calls of an operation the script has made so far
Count(name) == Cardinality({i \in DOMAIN log : log[i].op = name})

\* a sensor call of the script: it returns and the script goes on at next_ok, or it
\* raises and the script goes on at next_raised
Step(c, name, a, next_ok, next_raised) ==
    /\ Return(c, name, a)
    /\ log' = Append(log, [op |-> name, error |-> c.error, sent |-> Sent(c)])
    /\ pc' = IF c.error = "ok" THEN next_ok ELSE next_raised

\* sensor = sgp4Xmod.SGP4X(adapter=adaptor, address=0x59, check_crc=True, sensor_id=...)
main_construct ==
    /\ pc = "construct"
    /\ \E sid \in {0, 1} : SGP4X(89, sid, TRUE)
    /\ pc' = "get_id"
    /\ log' = log

\* sen_id = sensor.get_id()
main_get_id ==
    /\ pc = "get_id"
    /\ \E io \in IO :
        Step(serial_number_sgp4x(
                 _send_command_and_read_answer(Enter, _cmd_get_serial_number,
                     <<"H", "B", "H", "B", "H">>, FALSE, None, None, io)),
             "get_id", <<>>, "self_test", "finally_outer")

\* test_result = sensor.execute_self_test(), then the entry into the inner try: the
\* conditioning loop is left at once on sensor_id 0
main_self_test ==
    /\ pc = "self_test"
    /\ \E io \in IO :
        Step(self_test_result(
                 _send_command_and_read_answer(Enter, _cmd_execute_self_test,
                     <<"H", "B">>, FALSE, None, None, io)),
             "execute_self_test", <<>>,
             IF 0 = sensor_id THEN "finally_inner" ELSE "conditioning",
             "finally_outer")

\* _raw = sensor.execute_conditioning() in the loop over range(3)
main_conditioning ==
    /\ pc = "conditioning"
    /\ \E io \in IO :
        Step(conditioning_values(
                 _send_command_and_read_answer(Enter, _cmd_execute_conditioning,
                     <<"H", "B">>, TRUE, 50, 25, io)),
             "execute_conditioning", <<50, 25>>,
             IF Count("execute_conditioning") + 1 = 3 THEN "finally_inner" ELSE "conditioning",
             "finally_inner_raised")

\* the finally of the inner try: sensor.turn_heater_off(); an exception of the loop,
\* or of this call, goes on to the outer finally
main_finally_inner ==
    /\ pc \in {"finally_inner", "finally_inner_raised"}
    /\ \E io \in WriteIO :
        Step(_send_command(Enter, _cmd_turn_heater_off, None, None, io),
             "turn_heater_off", <<>>,
             IF pc = "finally_inner" THEN "measure" ELSE "finally_outer",
             "finally_outer")

\* the measurement loop with an exception of measure_raw_signal ending the script
main_measure_unprotected ==
    /\ pc = "measure"
    /\ \E io \in IO :
        Step(measured_values_sgp4x(
                 _send_command_and_read_answer(Enter, _cmd_measure_raw_signal,
                     IF sensor_id # 0 THEN <<"H", "B", "H", "B">> ELSE <<"H", "B">>,
                     TRUE, 50, 25, io),
                 sensor_id),
             "measure_raw_signal", <<50, 25>>,
             IF Count("measure_raw_signal") + 1 = MaxMeasure THEN "finally_outer" ELSE "measure",
             "done")

\* _raw = sensor.measure_raw_signal() in the loop over range(1000)
main_measure ==
    /\ pc = "measure"
    /\ \E io \in IO :
        Step(measured_values_sgp4x(
                 _send_command_and_read_answer(Enter, _cmd_measure_raw_signal,
                     IF sensor_id # 0 THEN <<"H", "B", "H", "B">> ELSE <<"H", "B">>,
                     TRUE, 50, 25, io),
                 sensor_id),
             "measure_raw_signal", <<50, 25>>,
             IF Count("measure_raw_signal") + 1 = MaxMeasure THEN "finally_outer" ELSE "measure",
             "finally_outer")

\* the finally of the outer try: sensor.turn_heater_off(), and the script ends
main_finally_outer ==
    /\ pc = "finally_outer"
    /\ \E io \in WriteIO :
        Step(_send_command(Enter, _cmd_turn_heater_off, None, None, io),
             "turn_heater_off", <<>>, "done", "done")

MainNext ==
    \/ main_construct
    \/ main_get_id
    \/ main_self_test
    \/ main_conditioning
    \/ main_finally_inner
    \/ main_measure
    \/ main_finally_outer

\* the script runs on its own: a call that can be made is made
MainSpec == MainInit /\ [][MainNext]_vars /\ WF_vars(MainNext)

(***************************************************************************)
(* Encoding and validation called on their own: _send_command with two raw *)
(* values on a fresh session, then _check_answer on the six bytes that     *)
(* follow the command code in the frame that was written.  args holds the  *)
(* pair <<raw_rel_hum, raw_temp>>.                                         *)
(***************************************************************************)
\* raw 16-bit values: the ends of the range, both byte boundaries, the raw values
\* of 100 %, of 50 % and of 25 degrees, and 0xBEEF
RawWords == {1, 255, 256, 3268, 6535, 26214, 48879, 65535}

RoundTripInit ==
    /\ alive = TRUE
    /\ sensor_id \in {0, 1}
    /\ check_crc = TRUE
    /\ last_cmd_code = None
    /\ buf_3 = [i \in 1 .. 3 |-> 0]
    /\ buf_6 = [i \in 1 .. 6 |-> 0]
    /\ buf_9 = [i \in 1 .. 9 |-> 0]
    /\ cmd_buf = [i \in 1 .. 8 |-> 0]
    /\ calls = 0
    /\ op = "none"
    /\ args \in RawWords \X RawWords
    /\ bus = <<>>
    /\ error = "ok"
    /\ detail = <<>>
    /\ result = <<>>
    /\ pc = "idle"
    /\ log = <<>>

\* self._send_command(cmd_code, raw_rel_hum, raw_temp)
send_command ==
    /\ op = "none"
    /\ \E cmd_code \in {_cmd_execute_conditioning, _cmd_measure_raw_signal} :
        Leave(_send_command(Enter, cmd_code, args[1], args[2],
                            [wok |-> TRUE, rok |-> TRUE, bad |-> 0]),
              "_send_command", args)

\* the outcome of a direct call of _check_answer
check_answer_returned(crc) ==
    /\ op' = "_check_answer"
    /\ error' = crc.error
    /\ detail' = crc.detail
    /\ result' = IF crc.error = "ok" THEN <<TRUE>> ELSE <<>>
    /\ UNCHANGED <<alive, sensor_id, check_crc, last_cmd_code, buf_3, buf_6, buf_9,
                   cmd_buf, calls, args, bus, pc, log>>

\* SGP4X._check_answer(frame[2:8], 6) on the frame the last call wrote
check_answer ==
    /\ op = "_send_command"
    /\ check_answer_returned(_check_answer(Slice(bus[1].buf, 2, 8), 6))

RoundTripNext ==
    \/ send_command
    \/ check_answer

RoundTripSpec == RoundTripInit /\ [][RoundTripNext]_vars

(***************************************************************************)
(* Vocabulary of the properties.                                           *)
(***************************************************************************)
\* the operations that read a response
ReadingOps == {"get_id", "execute_self_test", "execute_conditioning", "measure_raw_signal"}
\* the operations that take compensation values
CompOps == {"execute_conditioning", "measure_raw_signal"}

\* the command code an operation sends
CmdOf(name) ==
    CASE name = "get_id" -> _cmd_get_serial_number
      [] name = "execute_self_test" -> _cmd_execute_self_test
      [] name = "execute_conditioning" -> _cmd_execute_conditioning
      [] name = "measure_raw_signal" -> _cmd_measure_raw_signal
      [] name = "turn_heater_off" -> _cmd_turn_heater_off
      [] OTHER -> None

\* the lookup table of the specification: <<length, wait_ms>>, <<>> where the pair
\* (command, variant) has no entry
TableEntry(cmd, variant) ==
    CASE cmd = 13845 -> <<0, 1>>
      [] cmd = 10254 -> <<3, 320>>
      [] cmd = 9746 /\ variant = 1 -> <<3, 50>>
      [] cmd = 9743 /\ variant = 0 -> <<3, 30>>
      [] cmd = 9743 /\ variant = 1 -> <<6, 50>>
      [] cmd = 13954 -> <<9, 1>>
      [] OTHER -> <<>>

\* the positions of the bus events of one kind
Events(kind) == {i \in DOMAIN bus : bus[i].ev = kind}

\* the 3-byte groups of a response d whose third byte is not the checksum of the
\* first two, numbered from 0
Mismatching(d) ==
    {i \in 0 .. ((Len(d) \div 3) - 1) : d[3 * i + 3] # _calc_crc(<<d[3 * i + 1], d[3 * i + 2]>>)}

\* the least element of a non-empty set of numbers
Least(S) == CHOOSE x \in S : \A y \in S : x <= y

\* the compensation values lie in their ranges
InRange(a) == a[1] \in 0 .. 100 /\ a[2] \in -45 .. 130

\* the big-endian word at bytes i, i + 1 (numbered from 0) of d
WordAt(d, i) == 256 * d[i + 1] + d[i + 2]

\* the session state of the specification's state machine: Measuring after a
\* raw-signal or conditioning command, Idle otherwise
SessionState ==
    IF last_cmd_code \in {_cmd_measure_raw_signal, _cmd_execute_conditioning}
    THEN "Measuring" ELSE "Idle"

(***************************************************************************)
(* C1: in every operation that reads a response the bus events are, in     *)
(* this order, the write of the command frame, a wait of exactly the       *)
(* command's wait_ms and one read of exactly the command's length; no read *)
(* happens without the write and the wait before it.                       *)
(***************************************************************************)
C1_WriteWaitRead ==
    op \in ReadingOps =>
        LET e == TableEntry(CmdOf(op), sensor_id)
        IN  /\ \A i \in Events("read") :
                  /\ i = 3
                  /\ Len(bus) = 3
                  /\ e # <<>>
                  /\ bus[1].ev = "write" /\ bus[1].ok
                  /\ SubSeq(bus[1].buf, 1, 2) = to_bytes(CmdOf(op))
                  /\ bus[2].ev = "wait" /\ bus[2].n = e[2]
                  /\ bus[3].n = e[1]
                  /\ bus[3].ok => Len(bus[3].buf) = e[1]
            /\ error = "ok" => Events("read") # {}

\* a measurement on the SGP41 has written, waited 50 ms and read 6 bytes
C1_Witness ==
    /\ op = "measure_raw_signal" /\ sensor_id = 1 /\ error = "ok"
    /\ Len(bus) = 3 /\ bus[2].n = 50 /\ bus[3].ev = "read" /\ bus[3].n = 6

C4_UnsupportedFails ==
    /\ (op = "_get_answer_params" /\ TableEntry(args[1], args[2]) = <<>>) =>
          (error = "InvalidCommand" /\ result = <<>>)
    /\ (alive /\ op = "execute_conditioning" /\ sensor_id = 0) =>
          /\ error # "ok"
          /\ result = <<>>
          /\ Events("read") = {}
          /\ (InRange(args) /\ \A i \in Events("write") : bus[i].ok) => error = "InvalidCommand"

\* conditioning with the default compensation values was called on an SGP40
C4_Witness ==
    /\ alive /\ op = "execute_conditioning" /\ sensor_id = 0 /\ args = <<50, 25>>
    /\ error = "InvalidCommand"

(***************************************************************************)
(* C5: an invalid argument is detected before any bus traffic: a           *)
(* constructor call with an address other than 0x59 or a variant outside   *)
(* {0, 1}, and a measure_raw_signal or execute_conditioning call with a    *)
(* humidity outside 0..100 or a temperature outside -45..130, fail with no *)
(* write and no read, and the operations leave the last-issued command     *)
(* (and the command buffer) as they were.                                  *)
(***************************************************************************)
C5_RejectedBeforeBus ==
    /\ [](/\ (op = "__init__" /\ (args[1] # 89 \/ args[2] \notin {0, 1})) =>
                (error = "InvalidArgument" /\ bus = <<>> /\ ~alive)
          /\ (op \in CompOps /\ ~InRange(args)) =>
                (error = "InvalidArgument" /\ bus = <<>> /\ result = <<>>))
    /\ [][(op' \in CompOps /\ ~InRange(args')) =>
              (last_cmd_code' = last_cmd_code /\ cmd_buf' = cmd_buf)]_vars

\* a measurement with 101 % humidity was rejected after the serial number had been read
C5_Witness ==
    /\ op = "measure_raw_signal" /\ args = <<101, 0>> /\ error = "InvalidArgument"
    /\ bus = <<>> /\ last_cmd_code = _cmd_get_serial_number

\* the 8-byte frame of the specification
Frame8(cmd, raw_rh, raw_temp) ==
    to_bytes(cmd) \o to_bytes(raw_rh) \o <<_calc_crc(to_bytes(raw_rh))>>
                  \o to_bytes(raw_temp) \o <<_calc_crc(to_bytes(raw_temp))>>

(***************************************************************************)
(* C6: the frame written by send is exactly one of the two wire formats:   *)
(* the 8 bytes [CMD_HI, CMD_LO, RH_HI, RH_LO, checksum, TEMP_HI, TEMP_LO,  *)
(* checksum] when both raw compensation values are supplied (the           *)
(* operations with compensation values supply both), the 2 bytes           *)
(* [CMD_HI, CMD_LO] when none is.                                          *)
(***************************************************************************)
C6_FrameFormat ==
    (alive /\ op \in ReadingOps \cup {"turn_heater_off"}) =>
        \A i \in Events("write") :
            bus[i].ok =>
            bus[i].buf = IF op \in CompOps
                         THEN Frame8(CmdOf(op), round_relhum(args[1]), round_temp(45 + args[2]))
                         ELSE to_bytes(CmdOf(op))

(***************************************************************************)
(* C7: zero is a valid compensation value: for every humidity in 0..100    *)
(* and temperature in -45..130, measure_raw_signal (and                    *)
(* execute_conditioning on Variant1) writes the 8-byte frame that carries  *)
(* both raw values, also when a raw value is 0.                            *)
(***************************************************************************)
C7_ZeroIsValid ==
    (/\ alive
     /\ op = "measure_raw_signal" \/ (op = "execute_conditioning" /\ sensor_id = 1)
     /\ InRange(args)) =>
        /\ Events("write") # {}
        /\ \A i \in Events("write") :
              bus[i].ok =>
              /\ Len(bus[i].buf) = 8
              /\ WordAt(bus[i].buf, 2) = round_relhum(args[1])
              /\ WordAt(bus[i].buf, 5) = round_temp(45 + args[2])

C9_HeaterOffAlways ==
    (alive /\ op = "turn_heater_off") =>
        /\ Len(bus) = 1
        /\ bus[1].ev = "write" /\ bus[1].buf = <<54, 21>>
        /\ error = (IF bus[1].ok THEN "ok" ELSE "BusError")
        /\ bus[1].ok => (last_cmd_code = _cmd_turn_heater_off /\ SessionState = "Idle")

\* the heater was turned off on an SGP40 after a conditioning call, which had failed
C9_Witness ==
    /\ op = "turn_heater_off" /\ error = "ok" /\ sensor_id = 0
    /\ SubSeq(cmd_buf, 1, 2) = to_bytes(_cmd_execute_conditioning)
    /\ last_cmd_code = _cmd_turn_heater_off

(***************************************************************************)
(* C10: no bus transaction is retried: every call of a public operation    *)
(* performs at most one transport write and at most one transport read,    *)
(* also when the transport raises or the response fails validation, and    *)
(* that failure ends the call as its error.                                *)
(***************************************************************************)
C10_NoRetry ==
    (alive /\ op \in ReadingOps \cup {"turn_heater_off"}) =>
        /\ Cardinality(Events("write")) <= 1
        /\ Cardinality(Events("read")) <= 1
        /\ \A i \in DOMAIN bus :
              ~bus[i].ok => (error = "BusError" /\ result = <<>> /\ i = Len(bus))
        /\ \A i \in Events("read") :
              (check_crc /\ bus[i].ok /\ Mismatching(bus[i].buf) # {}) =>
                  (error = "ChecksumMismatch" /\ result = <<>> /\ i = Len(bus))

\* the read of the serial number failed on the bus: one write, one read, BusError
C10_Witness ==
    /\ op = "get_id" /\ error = "BusError" /\ Len(bus) = 3
    /\ bus[3].ev = "read" /\ ~bus[3].ok /\ result = <<>>

(***************************************************************************)
(* C11: every run of src/main.py ends, and it ends with a turn_heater_off  *)
(* made after the last heating command (execute_conditioning or            *)
(* measure_raw_signal), whether the script finished normally or a sensor   *)
(* call raised; that last call writes its frame unless the transport       *)
(* itself refuses the write.                                               *)
(***************************************************************************)
C11_HeaterOffLast ==
    /\ [](pc = "done" =>
            /\ log # <<>>
            /\ log[Len(log)].op = "turn_heater_off"
            /\ log[Len(log)].sent \/ log[Len(log)].error = "BusError"
            /\ \A i \in DOMAIN log : log[i].op \in CompOps => i < Len(log))
    /\ <>(pc = "done")

\* a measurement was sent and failed its checksum, and the script has ended after
\* a heater-off that was written
C11_Witness ==
    /\ pc = "done"
    /\ \E i \in DOMAIN log :
          log[i].op = "measure_raw_signal" /\ log[i].sent /\ log[i].error = "ChecksumMismatch"
    /\ log[Len(log)].op = "turn_heater_off" /\ log[Len(log)].sent

(***************************************************************************)
(* C12: round trip of encode and validate: the six bytes that follow the   *)
(* command code in a frame built with both parameters, two groups          *)
(* [HI, LO, CRC], validate as a 6-byte response.                           *)
(***************************************************************************)
C12_RoundTrip ==
    op = "_check_answer" =>
        /\ Len(bus[1].buf) = 8
        /\ WordAt(bus[1].buf, 2) = args[1]
        /\ WordAt(bus[1].buf, 5) = args[2]
        /\ error = "ok"
        /\ result = <<TRUE>>

\* the frame carrying the raw values 0xBEEF and 26214 has been validated
C12_Witness ==
    /\ op = "_check_answer" /\ args = <<48879, 26214>>
    /\ bus[1].buf[5] = 146 /\ error = "ok"

(***************************************************************************)
(* C13: the raw temperature of 25 degrees Celsius, the default             *)
(* compensation temperature, is 26214 = round(374.4857142857 * 70): that   *)
(* is what _get_raw_temp(25) returns and what an operation called with     *)
(* temperature 25 sends as the temperature word of its frame.              *)
(***************************************************************************)
C13_RawTemp25 ==
    (alive /\ op \in CompOps /\ InRange(args) /\ args[2] = 25) =>
        /\ _get_raw_temp(args[2]) = [error |-> "ok", value |-> 26214]
        /\ \A i \in Events("write") :
              Len(bus[i].buf) = 8 => WordAt(bus[i].buf, 5) = 26214

\* the literal the specification gives for it: 26240
C13_RawTemp25Is26240 ==
    (alive /\ op \in CompOps /\ InRange(args) /\ args[2] = 25) =>
        /\ _get_raw_temp(args[2]) = [error |-> "ok", value |-> 26240]
        /\ \A i \in Events("write") :
              Len(bus[i].buf) = 8 => WordAt(bus[i].buf, 5) = 26240

\* measure_raw_signal(50, 25) has written its 8-byte frame
C13_Witness ==
    /\ op = "measure_raw_signal" /\ args = <<50, 25>>
    /\ \E i \in Events("write") : bus[i].ok /\ Len(bus[i].buf) = 8

(***************************************************************************)
(* C14: on a Variant0 session (sensor_id 0) the conditioning command is    *)
(* never put on the bus: no call writes a frame with command code 0x2612,  *)
(* and 0x2612 is never recorded as the last command.                       *)
(***************************************************************************)
C14_ConditioningNeverOnBus ==
    (alive /\ sensor_id = 0) =>
        /\ last_cmd_code # _cmd_execute_conditioning
        /\ \A i \in Events("write") :
              bus[i].ok => Slice(bus[i].buf, 0, 2) # to_bytes(_cmd_execute_conditioning)

(***************************************************************************)
(* C15: the mandated wait applies to every command sent, turn-heater-off   *)
(* included: in every operation the write of a command frame is followed   *)
(* by a wait of that command's wait_ms (1 ms for turn-heater-off) before   *)
(* the operation returns.  Stated for the commands the table of the        *)
(* session's variant has an entry for.                                     *)
(***************************************************************************)
C15_WaitAfterEveryWrite ==
    (alive /\ op \in ReadingOps \cup {"turn_heater_off"}
           /\ TableEntry(CmdOf(op), sensor_id) # <<>>) =>
        \A i \in Events("write") :
            bus[i].ok =>
                /\ i + 1 \in Events("wait")
                /\ bus[i + 1].n = TableEntry(CmdOf(op), sensor_id)[2]

\* the frames a call has written successfully, as positions in its bus events b
Written(b) == {i \in DOMAIN b : b[i].ev = "write" /\ b[i].ok}

\* the greatest element of a non-empty set of numbers
Greatest(S) == CHOOSE x \in S : \A y \in S : y <= x

(***************************************************************************)
(* C16: the last-issued command is the command code of the most recent     *)
(* frame successfully written to the transport: it is unset on a session   *)
(* just constructed, a call that writes a frame sets it to the code in     *)
(* that frame, and a call that writes none (its write failed with          *)
(* BusError, or it raised before) leaves it as it was.  Hence a read is    *)
(* sized by the table entry of the command the same call has just written. *)
(***************************************************************************)
C16_LastIssued ==
    /\ [](alive =>
            /\ (op = "__init__" => last_cmd_code = None)
            /\ \A i \in Events("read") :
                  /\ Written(bus) # {}
                  /\ Greatest(Written(bus)) < i
                  /\ WordAt(bus[Greatest(Written(bus))].buf, 0) = last_cmd_code
                  /\ bus[i].n = TableEntry(last_cmd_code, sensor_id)[1])
    /\ [][(alive /\ alive') =>
            last_cmd_code' = IF Written(bus') # {}
                             THEN WordAt(bus'[Greatest(Written(bus'))].buf, 0)
                             ELSE last_cmd_code]_vars

\* the write of get_id failed after a measurement had been sent: the measurement's
\* command is still the last one issued
C16_Witness ==
    /\ op = "get_id" /\ error = "BusError" /\ Written(bus) = {}
    /\ last_cmd_code = _cmd_measure_raw_signal

\* the frame of an operation as a function of its command code and its compensation
\* values alone: the 8-byte frame when both raw values are non-zero
FrameOf(name, a) ==
    IF name \in CompOps /\ Truthy(round_relhum(a[1])) /\ Truthy(round_temp(45 + a[2]))
    THEN Frame8(CmdOf(name), round_relhum(a[1]), round_temp(45 + a[2]))
    ELSE to_bytes(CmdOf(name))

\* the value an operation returns as a function of the response bytes d alone
Decoded(name, variant, d) ==
    CASE name = "get_id" -> <<WordAt(d, 0), WordAt(d, 3), WordAt(d, 6)>>
      [] name = "execute_self_test" -> <<WordAt(d, 0)>>
      [] name = "execute_conditioning" -> <<WordAt(d, 0), None>>
      [] name = "measure_raw_signal" ->
            <<WordAt(d, 0), IF variant # 0 THEN WordAt(d, 3) ELSE None>>
      [] OTHER -> <<>>

\* the session's buffer for responses of n bytes
BufferOf(n) == IF n = 3 THEN buf_3 ELSE IF n = 6 THEN buf_6 ELSE buf_9

(***************************************************************************)
(* C17: reuse of the session's buffers never leaks earlier content: the    *)
(* bytes a call writes are a function of its command code, humidity and    *)
(* temperature alone, and the value a call returns is decoded from the     *)
(* bytes its own transport read delivered, which fill the whole buffer of  *)
(* that length, whatever calls preceded it.                                *)
(***************************************************************************)
C17_NoLeak ==
    (alive /\ op \in ReadingOps \cup {"turn_heater_off"}) =>
        /\ \A i \in Events("write") : bus[i].buf = FrameOf(op, args)
        /\ \A i \in Events("read") :
              bus[i].ok => BufferOf(bus[i].n) = bus[i].buf
        /\ (op \in ReadingOps /\ error = "ok") =>
              /\ Events("read") # {}
              /\ \A i \in Events("read") :
                    bus[i].ok /\ result = Decoded(op, sensor_id, bus[i].buf)

\* the third call of a session returns a measurement; a serial number and a
\* self-test result, read by calls before it, are still in the other buffers
C17_Witness ==
    /\ calls = 3 /\ sensor_id = 1 /\ op = "measure_raw_signal" /\ error = "ok"
    /\ args = <<50, 25>>
    /\ buf_9 # [i \in 1 .. 9 |-> 0]
    /\ buf_3 # [i \in 1 .. 3 |-> 0]
    /\ result = <<54272, 19203>>

(***************************************************************************)
(* C18: with checksum verification disabled at construction no operation   *)
(* fails with ChecksumMismatch: the bytes a read delivers are decoded and  *)
(* returned whatever the third byte of each group is.  The sequence of bus *)
(* events is the write alone (it failed, or the command has no table       *)
(* entry) or write, wait of wait_ms, read of length, with verification     *)
(* disabled as with verification enabled.                                  *)
(***************************************************************************)
C18_ChecksumDisabled ==
    (alive /\ op \in ReadingOps) =>
        /\ ~check_crc =>
              /\ error # "ChecksumMismatch"
              /\ \A i \in Events("read") :
                    bus[i].ok => (error = "ok" /\ result = Decoded(op, sensor_id, bus[i].buf))
        /\ \/ bus = <<>> /\ error = "InvalidArgument"
           \/ /\ Len(bus) = 1
              /\ bus[1].ev = "write"
              /\ ~bus[1].ok \/ TableEntry(CmdOf(op), sensor_id) = <<>>
           \/ /\ Len(bus) = 3
              /\ bus[1].ev = "write" /\ bus[1].ok
              /\ bus[2].ev = "wait" /\ bus[2].n = TableEntry(CmdOf(op), sensor_id)[2]
              /\ bus[3].ev = "read" /\ bus[3].n = TableEntry(CmdOf(op), sensor_id)[1]

\* verification is disabled and a serial number is returned from a response whose
\* last group carries a wrong checksum
C18_Witness ==
    /\ alive /\ ~check_crc /\ op = "get_id" /\ error = "ok"
    /\ Len(bus) = 3 /\ Mismatching(bus[3].buf) # {}
    /\ result = <<54272, 19203, 49670>>

====
